---- MODULE Spec2Model ----
(***************************************************************************)
(* State machine of the dispatcher (packages/state/src/observable.ts) and  *)
(* of the entity manager (packages/state/src/state.ts).                    *)
(*                                                                         *)
(* Every public call (activate, destroy, property write, listener          *)
(* registration, effect creation, required read, timer tick) is one        *)
(* action.  A call is synchronous in the source, so the action computes    *)
(* the whole call: the operators below take the program state as a record  *)
(* w ("world") and return the world after the call, re-entrant calls made  *)
(* by listeners included.                                                  *)
(***************************************************************************)
EXTENDS Integers, Sequences, FiniteSets, TLC

\* ------------------------------------------------------------------ bounds
\* Number of user listeners that may be registered per behaviour.
MaxListeners == 1
\* Number of effects that may be created per behaviour.
MaxEffects == 1
\* Number of deferred-value markers that may be thrown per behaviour.
MaxMarkers == 1
\* Number of user listeners where listeners act on one another.
MaxPeers == 2

\* ----------------------------------------------------------------- signals
\* Signal = Event | true | false | null  (observable.ts 26)
Ready == "#ready"
Flush == "#flush"
Term == "#term"

\* --------------------------------------------------------------- entities
\* P declares two fields holding constructed (not activated) instances C1
\* and C2; E is a standalone entity with two data fields and a required key.
Tree == {"P", "C1", "C2"}
Entities == Tree \cup {"E"}
\* Plain values a data field can hold (the numbers 0 and 1); Absent marks a
\* key that is not in the store.
Values == {"0", "1"}
Absent == "#absent"

\* Own enumerable fields assigned by the constructor body, in declaration
\* order, and their initial values.
Fields(e) ==
  CASE e = "P" -> <<"c1", "c2">>
    [] e = "E" -> <<"a", "b">>
    [] OTHER -> <<"a">>

FieldInit(e, k) ==
  CASE e = "P" /\ k = "c1" -> "C1"
    [] e = "P" /\ k = "c2" -> "C2"
    [] OTHER -> "0"

\* A key declared without a value (required, no default): only E has one.
Required(e) == IF e = "E" THEN {"r"} ELSE {}

Range(s) == {s[i] : i \in DOMAIN s}
KeysOf(e) == Range(Fields(e)) \cup Required(e)
AllKeys == UNION {KeysOf(e) : e \in Entities}

\* Entities whose class defines the new() hook returning a cleanup function.
HasNew(e) == e \in Tree

\* --------------------------------------------------------------- listeners
\* An entry of the LISTENERS map of an entity.  all = no filter; sel = the
\* filter; live = FALSE once the entry is deleted (the position is kept while
\* an iteration is under way, see Deliver); n = the user listener, effect
\* or marker the callback belongs to; act = what a user callback does;
\* ign/watch = the closure variables of an observe() subscription (ign is
\* also the "done" flag of a user callback that returns a function once).
Lst(kind, all, sel, n, act) ==
  [kind |-> kind, all |-> all, sel |-> sel, live |-> TRUE, n |-> n,
   act |-> act, ign |-> FALSE, watch |-> {}]

OnReadyL == Lst("onReady", TRUE, {}, 0, "none")
InstrL == Lst("instr", TRUE, {}, 0, "none")
InitL == Lst("init", TRUE, {}, 0, "none")
TermL == Lst("term", FALSE, {Term}, 0, "none")
UnhookL == Lst("unhook", FALSE, {Term}, 0, "none")

NoErr == "none"

\* An entry of the log of the current call.
Ev(ev, e, n, sig, ks) == [ev |-> ev, e |-> e, n |-> n, sig |-> sig, ks |-> ks]

Note(w, entry) == [w EXCEPT !.log = Append(@, entry)]

SeqAdd(s, x) == IF x \in Range(s) THEN s ELSE Append(s, x)

HasOnReady(w, e) ==
  \E i \in DOMAIN w.lst[e] : w.lst[e][i].live /\ w.lst[e][i].kind = "onReady"

\* Map.prototype.clear
KillAll(ls) == [i \in DOMAIN ls |-> [ls[i] EXCEPT !.live = FALSE]]

IsEntity(v) == v \in Entities

\* ------------------------------------------------------------ dispatcher
\* The functions below call one another re-entrantly (a listener called by
\* emit may call event, which calls emit).  Such a call is written
\* Do(w, <<"F", args>>), which stands for F(w, args).
RECURSIVE Do(_, _)
RECURSIVE Deliver(_, _, _, _), Promote(_, _, _), DestroyKids(_, _, _)

QueueEmptyAlways(w) == TRUE

\* !DISPATCH.size (observable.ts 194)
QueueEmpty(w) == w.disp = <<>>

\* enqueue (observable.ts 193-207): the timer is set when DISPATCH is empty;
\* DISPATCH is a Set, so a function already in it is not added again.  owed
\* records the functions passed to enqueue that have not been called since.
Enqueue(w, task) ==
  IF w.err # NoErr THEN w
  ELSE [w EXCEPT !.timers = IF QueueEmpty(w) THEN @ + 1 ELSE @,
                 !.disp = SeqAdd(@, task),
                 !.owed = @ \cup {task}]

\* Each flush closure is a new function: n makes it distinct in DISPATCH.
FlushTask(e, n) == [t |-> "flush", e |-> e, n |-> n]
InvokeTask(f) == [t |-> "invoke", e |-> "", n |-> f]
\* The function user listener n returned to emit (observable.ts 159-160)
AfterTask(e, n) == [t |-> "after", e |-> e, n |-> n]

ReadyDoneNever(notReady, key) == FALSE

\* emit's early return (observable.ts 143): ready is delivered once.
ReadyDone(notReady, key) == key = Ready /\ ~notReady

FirstSignalsKeyOnly(notReady, key) == <<key>>

\* The signals an emit starts to deliver (observable.ts 152): an entity that
\* is not ready delivers ready first, whatever was emitted.
FirstSignals(notReady, key) ==
  IF notReady THEN SeqAdd(<<Ready>>, key) ELSE <<key>>

\* observable.ts 166: the test reads the argument of the emit call that
\* started the delivery, not the signal being delivered.
ClearsListeners(key) == key = Term

\* emit (observable.ts 139-169)
Emit(w, e, key) ==
  IF w.err # NoErr THEN w
  ELSE LET notReady == HasOnReady(w, e) IN
    IF ReadyDone(notReady, key) THEN w
    ELSE IF w.infl[e] # <<>> THEN [w EXCEPT !.infl[e] = SeqAdd(@, key)]
    ELSE LET w1 == Do([w EXCEPT !.infl[e] = FirstSignals(notReady, key)],
                      <<"Deliver", e, 1, 0>>)
         IN IF w1.err # NoErr THEN w1
            ELSE [w1 EXCEPT !.lst[e] = IF ClearsListeners(key)
                                       THEN KillAll(@) ELSE @,
                            !.infl[e] = <<>>]

\* The two loops of emit (observable.ts 154-164).  Both iterate live
\* collections: a signal added to PENDING or a listener added to the Map
\* during the loop is visited, a deleted listener is not.  i is the position
\* in PENDING, j the position of the last Map entry visited.
Deliver(w, e, i, j) ==
  IF w.err # NoErr \/ i > Len(w.infl[e]) THEN w
  ELSE LET next == {x \in DOMAIN w.lst[e] : x > j /\ w.lst[e][x].live} IN
    IF next = {} THEN Deliver(w, e, i + 1, 0)
    ELSE LET x == CHOOSE m \in next : \A o \in next : m <= o
         IN Deliver(Do(w, <<"Call", e, x, w.infl[e][i]>>), e, i, x)

\* One listener of the loop (observable.ts 156-164)
Call(w, e, x, key) ==
  LET l == w.lst[e][x] IN
  IF ~(l.all \/ key \in l.sel) THEN w
  ELSE LET w1 == Do(w, <<"Callback", e, l, x, key>>) IN
    IF w1.err # NoErr THEN w1
    ELSE IF w1.ret = "null" THEN [w1 EXCEPT !.lst[e][x].live = FALSE]
    ELSE IF w1.ret = "fn" THEN Enqueue(w1, AfterTask(e, l.n))
    ELSE w1

\* addListener (observable.ts 95-115): an unfiltered listener added to a ready
\* entity is called with ready at once; its result is not used.
AddListener(w, e, l) ==
  IF w.err # NoErr THEN w
  ELSE LET w1 == IF ~HasOnReady(w, e) /\ l.all
                 THEN Do(w, <<"Callback", e, l, 0, Ready>>) ELSE w
       IN IF w1.err # NoErr THEN w1
          ELSE [w1 EXCEPT !.lst[e] = Append(@, l)]

NewBatchAlways(w, e) == TRUE

\* First write of a batch (observable.ts 176-178)
NewBatch(w, e) == w.pkeys[e] = {}

\* event (observable.ts 171-191); key Ready stands for "no key".
Event(w, e, key, silent) ==
  IF w.err # NoErr THEN w
  ELSE IF key = Term THEN Do(w, <<"Emit", e, Term>>)
  ELSE IF key = Ready THEN Do(w, <<"Emit", e, Ready>>)
  ELSE LET w1 == IF NewBatch(w, e) /\ ~silent
                 THEN Enqueue(w, FlushTask(e, Len(w.disp) + 1)) ELSE w
           w2 == [w1 EXCEPT !.pkeys[e] = @ \cup {key}]
       IN IF silent THEN w2 ELSE Do(w2, <<"Emit", e, key>>)

\* ---------------------------------------------------------- entity manager
FrozenNever(w, e) == FALSE

\* Object.isFrozen(store) (state.ts 652)
Frozen(w, e) == w.frozen[e]

SameValueNever(w, e, k, v) == FALSE

\* update's equality test (state.ts 667)
SameValue(w, e, k, v) == v = w.store[e][k] /\ w.store[e][k] # Absent

\* update (state.ts 644-674) without a setter function: arg is "none" or
\* "silent" (arg === true).
Update(w, e, k, v, arg) ==
  IF w.err # NoErr THEN w
  ELSE IF Frozen(w, e) THEN [w EXCEPT !.err = "destroyed"]
  ELSE IF SameValue(w, e, k, v) THEN w
  ELSE LET w1 == [w EXCEPT !.store[e][k] = v]
       IN IF arg = "silent" THEN w1 ELSE Do(w1, <<"Event", e, k, FALSE>>)

\* !arg2 (state.ts 341): of the values a field holds, the number 0 is falsy.
Falsy(v) == v = "0"

\* state.set(key, value) (state.ts 327-351): without a value to assign the
\* call dispatches the key.
StateSet(w, e, k, v) ==
  IF Falsy(v) THEN Do(w, <<"Event", e, k, FALSE>>)
  ELSE Do(w, <<"Update", e, k, v, "none">>)

\* The setter manage installs (state.ts 560-567): a state assigned without a
\* recorded parent is adopted and activated.
SetProp(w, e, k, v, arg) ==
  LET w1 == Do(w, <<"Update", e, k, v, arg>>) IN
  IF w1.err # NoErr THEN w1
  ELSE IF IsEntity(v) /\ w1.parent[v] = "unset"
  THEN Do([w1 EXCEPT !.parent[v] = e], <<"Event", v, Ready, FALSE>>)
  ELSE w1

\* assign (state.ts 416-436) for one key that is a managed property
Assign(w, e, k, v, silent) ==
  Do(Do(w, <<"Emit", e, Ready>>),
     <<"SetProp", e, k, v, IF silent THEN "silent" ELSE "none">>)

\* The promotion loop of the ready handler (state.ts 510-514), field i on.
Promote(w, e, i) ==
  IF w.err # NoErr \/ i > Len(Fields(e)) THEN w
  ELSE Promote(Do(w, <<"SetProp", e, Fields(e)[i],
                        FieldInit(e, Fields(e)[i]), "silent">>),
               e, i + 1)

\* The ready handler init registers (state.ts 507-545).  The only
\* constructor argument is the one the constructor appends, which calls
\* new(); the function new() returns is registered for the terminal signal.
InitHandler(w, e) ==
  LET w1 == [w EXCEPT !.parent[e] = IF @ = "unset" THEN "null" ELSE @]
      w2 == Do(Note(w1, Ev("promote", e, 0, "", {})), <<"Promote", e, 1>>)
      w3 == IF HasNew(e)
            THEN Do(Note(w2, Ev("new", e, 0, "", {})),
                    <<"AddListener", e, UnhookL>>)
            ELSE w2
      w4 == Do(w3, <<"AddListener", e, TermL>>)
  IN [w4 EXCEPT !.ret = "null"]

\* Children a terminal listener destroys (state.ts 535-537), in store order.
OwnedAt(w, e, k) == IsEntity(w.store[e][k]) /\ w.parent[w.store[e][k]] = e

DestroyKids(w, e, i) ==
  IF w.err # NoErr \/ i > Len(Fields(e)) THEN w
  ELSE LET k == Fields(e)[i] IN
    DestroyKids(IF OwnedAt(w, e, k)
                THEN Do(w, <<"Event", w.store[e][k], Term, FALSE>>)
                ELSE w, e, i + 1)

\* The terminal listener of the ready handler (state.ts 532-542)
TermHandler(w, e) ==
  LET w1 == Do(Note(w, Ev("kids", e, 0, "", {})), <<"DestroyKids", e, 1>>)
  IN IF w1.err # NoErr THEN w1
     ELSE [Note(w1, Ev("freeze", e, 0, "", {}))
             EXCEPT !.frozen[e] = TRUE, !.ret = "void"]

\* The functions addListener returned for the other user listeners of e are
\* called (observable.ts 114): their entries are deleted from the Map.
Unsubscribe(w, e, n) ==
  [w EXCEPT !.lst[e] = [i \in DOMAIN @ |->
     IF @[i].kind = "rec" /\ @[i].n # n THEN [@[i] EXCEPT !.live = FALSE]
     ELSE @[i]]]

\* A callback registered by the user: it records the signal and the pending
\* keys it can see.  One with act = "destroy" destroys its entity when it is
\* called with a key: (key) => { if (typeof key == "string") this.set(null) }.
\* One with act = "after" returns, the first time it is called with a key, a
\* function for emit to enqueue (see After); ign is its "done" flag.
\* One with act = "write" writes the other value to b when it is called with
\* the flush signal: (key) => { if (key === false) this.b = 1 - this.b }.
\* One with act = "throw" throws when it is called with the flush signal.
\* One with act = "unsub" calls, when called with a key, the functions
\* addListener returned for the other user listeners.  One with act =
\* "null" returns null.  One with act = "echo" dispatches, the first time
\* it is called with a key, that key again: this.set(key).  One with act =
\* "fail" throws the first time it is called with a key.
UserCallback(w, e, l, x, key) ==
  LET w1 == Note(w, Ev("recv", e, l.n, key, w.pkeys[e])) IN
  IF l.act = "destroy" /\ key \in AllKeys
  THEN LET w2 == Do(Note(w1, Ev("destroy", e, l.n, "", {})),
                    <<"Event", e, Term, FALSE>>)
       IN IF w2.err # NoErr THEN w2 ELSE [w2 EXCEPT !.ret = "void"]
  ELSE IF l.act = "after" /\ key \in AllKeys /\ x > 0 /\ ~w1.lst[e][x].ign
  THEN [w1 EXCEPT !.lst[e][x].ign = TRUE, !.ret = "fn"]
  ELSE IF l.act = "write" /\ key = Flush
  THEN LET v == IF w1.store[e]["b"] = "1" THEN "0" ELSE "1"
           w2 == Do(IF Frozen(w1, e) THEN w1
                    ELSE Note(w1, Ev("write", e, l.n, "", {"b"})),
                    <<"SetProp", e, "b", v, "none">>)
       IN IF w2.err # NoErr THEN w2 ELSE [w2 EXCEPT !.ret = "void"]
  ELSE IF l.act = "throw" /\ key = Flush
  THEN [w1 EXCEPT !.err = "thrown"]
  ELSE IF l.act = "fail" /\ key \in AllKeys /\ x > 0 /\ ~w1.lst[e][x].ign
  THEN [w1 EXCEPT !.lst[e][x].ign = TRUE, !.err = "thrown"]
  ELSE IF l.act = "unsub" /\ key \in AllKeys
  THEN [Unsubscribe(w1, e, l.n) EXCEPT !.ret = "void"]
  ELSE IF l.act = "null"
  THEN [w1 EXCEPT !.ret = "null"]
  ELSE IF l.act = "echo" /\ key \in AllKeys /\ x > 0 /\ ~w1.lst[e][x].ign
  THEN LET w2 == Do(Note([w1 EXCEPT !.lst[e][x].ign = TRUE],
                         Ev("emit", e, l.n, key, {})),
                    <<"Event", e, key, FALSE>>)
       IN IF w2.err # NoErr THEN w2 ELSE [w2 EXCEPT !.ret = "void"]
  ELSE [w1 EXCEPT !.ret = "void"]

\* The function a listener with act = "after" returns: it writes the other
\* value to the first field of its entity: () => { this.a = 1 - this.a }.
After(w, e, n) ==
  LET k == Fields(e)[1]
      v == IF w.store[e][k] = "1" THEN "0" ELSE "1"
  IN Do(IF Frozen(w, e) THEN w ELSE Note(w, Ev("write", e, n, "", {k})),
        <<"SetProp", e, k, v, "none">>)

\* ----------------------------------------------------------------- effects
EffL(f) == Lst("eff", TRUE, {}, f, "none")
ObsL(f) == [Lst("obs", TRUE, {}, f, "none") EXCEPT !.ign = TRUE]
AccL(m) == Lst("acc", TRUE, {}, m, "none")

\* The keys an effect callback reads through its proxy.  Body "a" is
\* (current) => current.a; body "ab" is (current) => current.a && current.b,
\* which reads b only while a is truthy; body "ar" is (current) =>
\* [current.a, current.r], where r is the required key.
Reads(w, e, body) ==
  IF body = "ab" /\ w.store[e]["a"] = "1" THEN {"a", "b"}
  ELSE IF body = "ar" THEN {"a", "r"}
  ELSE {"a"}

\* The callback reads a required key that is not in the store: access
\* throws the marker (state.ts 610-642).
Suspends(w, e, body) == body = "ar" /\ w.store[e]["r"] = Absent

WatchingAny(l, key) == TRUE

\* observe's test (observable.ts 72)
Watching(l, key) == key \in l.watch

\* The subscription of an invocation that has returned (observable.ts 265):
\* ignore = false; watch holds the keys the callback read (observable.ts 79).
Subscribed(l, keys) == [l EXCEPT !.ign = FALSE, !.watch = keys]

PausedListening(l, keys) == [l EXCEPT !.ign = FALSE, !.watch = keys]

\* The subscription of an invocation that threw: ignore is still true
\* (observable.ts 239, 265 not reached); watch holds the keys read before
\* the throw.
Paused(l, keys) == [l EXCEPT !.watch = keys]

\* invoke (observable.ts 238-282).  The subscription of this invocation is
\* the Map entry observe appends.  A callback that throws the marker of a
\* required key leaves reset undefined and chains invoke to the marker's
\* promise (274-277); the getter throws before the key is recorded as
\* watched (state.ts 752-760).
Invoke(w, f) ==
  IF w.err # NoErr THEN w
  ELSE LET e == w.fx[f].e
           w1 == Do(w, <<"AddListener", e, ObsL(f)>>)
           x == Len(w1.lst[e])
           keys == Reads(w1, e, w1.fx[f].body)
           w2 == Note(w1, Ev("run", e, f, "", keys))
           m == CHOOSE g \in DOMAIN w1.prom : ~w1.prom[g].made
           w3 == Do([Note(w1, Ev("suspend", e, f, "", keys \ {"r"}))
                       EXCEPT !.prom[m] = [made |-> TRUE, e |-> e, k |-> "r",
                                           st |-> "pending", val |-> Absent,
                                           then |-> f],
                              !.lst[e][x] = Paused(@, keys \ {"r"})],
                    <<"AddListener", e, AccL(m)>>)
       IN IF Suspends(w1, e, w1.fx[f].body)
          THEN [w3 EXCEPT !.fx[f].reset = "undef"]
          ELSE [w2 EXCEPT !.lst[e][x] = Subscribed(@, keys),
                          !.fx[f].reset = IF w.fx[f].out = "null" THEN "null"
                                          ELSE "invoke",
                          !.fx[f].unset = TRUE]

\* onUpdate (observable.ts 241-255); x is the Map entry of its invocation.
OnUpdate(w, f, e, x) ==
  IF w.fx[f].reset = "null" \/ w.lst[e][x].ign THEN w
  ELSE LET w1 == [w EXCEPT !.lst[e][x].ign = TRUE]
           w2 == IF w1.fx[f].reset = "invoke" /\ w1.fx[f].unset
                 THEN [Note(w1, Ev("clean", e, f, "true", {}))
                         EXCEPT !.fx[f].unset = FALSE]
                 ELSE w1
       IN Enqueue(w2, InvokeTask(f))

\* The listener observe registers (observable.ts 71-73); it returns nothing.
ObserveListener(w, e, l, x, key) ==
  LET w1 == IF x > 0 /\ Watching(l, key)
            THEN Do(w, <<"OnUpdate", l.n, e, x>>) ELSE w
  IN IF w1.err # NoErr THEN w1 ELSE [w1 EXCEPT !.ret = "void"]

\* The listener watch registers (observable.ts 292-297)
EffectListener(w, f, key) ==
  IF key = Ready
  THEN LET w1 == Do(w, <<"Invoke", f>>)
       IN IF w1.err # NoErr THEN w1 ELSE [w1 EXCEPT !.ret = "void"]
  ELSE IF w.fx[f].reset # "invoke"
  THEN [w EXCEPT !.ret = IF w.fx[f].reset = "null" THEN "null" ELSE "void"]
  ELSE IF key = Term /\ w.fx[f].unset
  THEN [Note(w, Ev("clean", w.fx[f].e, f, "null", {})) EXCEPT !.ret = "void"]
  ELSE [w EXCEPT !.ret = "void"]

\* cleanup, the function watch returns (observable.ts 284-288)
Cleanup(w, f) ==
  LET e == w.fx[f].e
      w1 == Note(w, Ev("cancel", e, f, "", {}))
      w2 == IF w1.fx[f].unset THEN Note(w1, Ev("clean", e, f, "false", {}))
            ELSE w1
  IN [w2 EXCEPT !.fx[f].reset = "null"]

IsPropertyAny(w, m, key) == key \notin {Ready, Flush, Term}

\* The key test of the marker's listener (state.ts 625)
IsProperty(w, m, key) == key = w.prom[m].k

\* The listener access registers for its promise (state.ts 624-633)
MarkerListener(w, e, m, key) ==
  IF IsProperty(w, m, key)
  THEN [w EXCEPT !.prom[m] = IF @.st = "pending"
                             THEN [@ EXCEPT !.st = "resolved",
                                            !.val = w.store[e][key]]
                             ELSE @,
                 !.ret = "null"]
  ELSE IF key = Term
  THEN [w EXCEPT !.prom[m].st = IF @ = "pending" THEN "rejected" ELSE @,
                 !.ret = "void"]
  ELSE [w EXCEPT !.ret = "void"]

\* What each kind of listener does when called with key; x is its position
\* in the Map (0 when it is called from addListener, before it is added).
\* The result is left in ret: "null", "void" or "fn".
Callback(w, e, l, x, key) ==
  CASE l.kind = "onReady" -> [w EXCEPT !.ret = "null"]
    [] l.kind = "instr" -> [w EXCEPT !.ret = "null"]
    [] l.kind = "init" -> Do(w, <<"InitHandler", e>>)
    [] l.kind = "term" -> Do(w, <<"TermHandler", e>>)
    [] l.kind = "unhook" ->
         [Note(w, Ev("unhook", e, 0, key, {})) EXCEPT !.ret = "void"]
    [] l.kind = "rec" -> Do(w, <<"UserCallback", e, l, x, key>>)
    [] l.kind = "obs" -> Do(w, <<"ObserveListener", e, l, x, key>>)
    [] l.kind = "eff" -> Do(w, <<"EffectListener", l.n, key>>)
    [] l.kind = "acc" -> Do(w, <<"MarkerListener", e, l.n, key>>)

\* A function of DISPATCH: the flush closure of event (observable.ts
\* 182-185), the invoke of an effect or a function a listener returned.
RunTask(w, task) ==
  IF task.t = "flush"
  THEN LET w1 == Do(Note(w, Ev("flush", task.e, 0, "", w.pkeys[task.e])),
                    <<"Emit", task.e, Flush>>)
       IN IF w1.err # NoErr THEN w1 ELSE [w1 EXCEPT !.pkeys[task.e] = {}]
  ELSE IF task.t = "after" THEN Do(w, <<"After", task.e, task.n>>)
  ELSE Do(w, <<"Invoke", task.n>>)

\* The timer callback of enqueue (observable.ts 195-204): forEach visits the
\* functions added while it runs; each runs in its own try/catch.
RECURSIVE RunDispatch(_, _)
RunDispatch(w, i) ==
  IF i > Len(w.disp) THEN [w EXCEPT !.disp = <<>>]
  ELSE RunDispatch([Do([w EXCEPT !.owed = @ \ {w.disp[i]}],
                       <<"RunTask", w.disp[i]>>) EXCEPT !.err = NoErr],
                   i + 1)

Do(w, c) ==
  CASE c[1] = "Emit" -> Emit(w, c[2], c[3])
    [] c[1] = "Deliver" -> Deliver(w, c[2], c[3], c[4])
    [] c[1] = "Call" -> Call(w, c[2], c[3], c[4])
    [] c[1] = "Callback" -> Callback(w, c[2], c[3], c[4], c[5])
    [] c[1] = "AddListener" -> AddListener(w, c[2], c[3])
    [] c[1] = "Event" -> Event(w, c[2], c[3], c[4])
    [] c[1] = "Update" -> Update(w, c[2], c[3], c[4], c[5])
    [] c[1] = "SetProp" -> SetProp(w, c[2], c[3], c[4], c[5])
    [] c[1] = "Promote" -> Promote(w, c[2], c[3])
    [] c[1] = "InitHandler" -> InitHandler(w, c[2])
    [] c[1] = "DestroyKids" -> DestroyKids(w, c[2], c[3])
    [] c[1] = "TermHandler" -> TermHandler(w, c[2])
    [] c[1] = "UserCallback" -> UserCallback(w, c[2], c[3], c[4], c[5])
    [] c[1] = "After" -> After(w, c[2], c[3])
    [] c[1] = "Invoke" -> Invoke(w, c[2])
    [] c[1] = "OnUpdate" -> OnUpdate(w, c[2], c[3], c[4])
    [] c[1] = "ObserveListener" -> ObserveListener(w, c[2], c[3], c[4], c[5])
    [] c[1] = "EffectListener" -> EffectListener(w, c[2], c[3])
    [] c[1] = "MarkerListener" -> MarkerListener(w, c[2], c[3], c[4])
    [] c[1] = "RunTask" -> RunTask(w, c[2])
    [] c[1] = "Cleanup" -> Cleanup(w, c[2])

\* ------------------------------------------------- context registry
\* Context of context.ts.  Scope R is a Context the program constructed
\* empty; scope K is R.push().  Classes A and B extend State, B extends A,
\* and declare no fields.  i1 (an A) and i2 (a B) are instances the program
\* made with new() and passes in; the other entities are constructed by
\* add from a class.  An expectation callback returns a new function each
\* time it is called.
MaxMade == 2
\* how many cleanups returned by expectation callbacks may be outstanding
\* in a scope when set is called on it
MaxOwed == 2

Scopes == {"R", "K"}
InputKeys == <<"x", "y">>
Types == {"A", "B", "W"}
Supplied == {"i1", "i2"}
\* w1 is an active instance of class W, which extends State and declares one
\* field holding a new A(): the entity k1, whose recorded parent is w1.
Wrappers == {"w1"}
Children == {"k1"}
MadeNames == <<"n1", "n2", "n3", "n4", "n5", "n6">>
Made == {MadeNames[i] : i \in 1 .. MaxMade}
Insts == Supplied \cup Made \cup Wrappers \cup Children
NoInput == "none"
\* what a caller passes for an input key: nothing, class A or an instance
InputVals == {NoInput, "A"} \cup Supplied
Inputs == [Range(InputKeys) -> InputVals]
\* Bad is a value that is neither an instance nor a class of State.
Bad == "bad"
\* Inputs that may name the entity with a child or class A for key x, and
\* an instance or the bad value for key y.
WideInputs ==
  {new \in [Range(InputKeys) -> InputVals \cup Wrappers \cup {Bad}] :
     /\ new["x"] \in {NoInput, "A"} \cup Wrappers
     /\ new["y"] \in {NoInput, "i1", Bad}}
NoInputs == [k \in Range(InputKeys) |-> NoInput]

\* keys(T): the key of the class and of each base below State (context.ts
\* 19-28)
Chain(T) ==
  CASE T = "B" -> <<"B", "A">>
    [] T = "W" -> <<"W">>
    [] OTHER -> <<"A">>

SuppliedType(i) ==
  CASE i = "i2" -> "B"
    [] i \in Wrappers -> "W"
    [] OTHER -> "A"

\* The values of entity e's fields whose recorded parent is e (context.ts
\* 164-165), in field order.
KidsOf(e) == IF e = "w1" THEN <<"k1">> ELSE <<>>

CEv(ev, s, t, e, x) == [ev |-> ev, s |-> s, t |-> t, e |-> e, x |-> x]
CNote(c, entry) == [c EXCEPT !.log = Append(@, entry)]

\* A function of a cleanup array: the destroy closure add pushes for an
\* entity it constructed (context.ts 185), or the function the expectation
\* callback of scope s for type t returned for entity e (context.ts 197-198).
DestroyFn(e) == [f |-> "destroy", s |-> "", t |-> "", e |-> e]
CleanFn(s, t, e) == [f |-> "clean", s |-> s, t |-> t, e |-> e]

\* Position of the entry of key e in the cleanup Map of scope x (0: none)
EntryOf(c, x, e) ==
  IF \E i \in DOMAIN c.cleanup[x] : c.cleanup[x][i].e = e
  THEN CHOOSE i \in DOMAIN c.cleanup[x] : c.cleanup[x][i].e = e
  ELSE 0

\* Map.set: a new key is appended, an existing key keeps its position.
MapSet(m, e, cbs) ==
  IF \E i \in DOMAIN m : m[i].e = e
  THEN [i \in DOMAIN m |-> IF m[i].e = e THEN [e |-> e, cbs |-> cbs] ELSE m[i]]
  ELSE Append(m, [e |-> e, cbs |-> cbs])

MapDelete(m, e) == SelectSeq(m, LAMBDA r : r.e # e)

ThisOwn(c, x, t) == c.bind[x][t]

\* this[key(T)]: the scope's own property, else the one inherited from the
\* scope it was pushed from (Object.create, context.ts 259).  "none" is
\* undefined.
This(c, x, t) ==
  IF c.bind[x][t] # "none" \/ x = "R" THEN c.bind[x][t] ELSE c.bind["R"][t]

\* this[key(T, true)]: the scope whose expectation callback for T is seen
\* from scope x ("" when there is none).
ExpectsIn(c, x, t) ==
  IF t \in c.exp[x] THEN x
  ELSE IF x = "K" /\ t \in c.exp["R"] THEN "R" ELSE ""

\* Context.get(Type, require) (context.ts 110-119)
Get(c, x, t, require) ==
  LET result == This(c, x, t)
  IN IF result = "null" THEN "ambiguous"
     ELSE IF result # "none" THEN result
     ELSE IF require THEN "notfound" ELSE "undefined"

\* The listener add registers (context.ts 195-202) is called with true:
\* the callback of scope s is called with e, and what it returns is put in
\* front of the array add made for e in scope x, which is the Map's entry
\* while the entity has not been deleted from the scope.
ExpectFires(c, l, e) ==
  LET c1 == CNote(c, CEv("expect", l.s, l.t, e, l.x))
      i == EntryOf(c1, l.x, e)
  IN IF i = 0 THEN c1
     ELSE [c1 EXCEPT !.cleanup[l.x][i].cbs = <<CleanFn(l.s, l.t, e)>> \o @]

RECURSIVE FireAll(_, _, _)
FireAll(c, e, i) ==
  IF i > Len(c.lsn[e]) THEN [c EXCEPT !.lsn[e] = <<>>]
  ELSE FireAll(ExpectFires(c, c.lsn[e][i], e), e, i + 1)

\* event(I): the ready signal reaches the listeners of an entity that was
\* not active (state.set() of context.ts 160)
ActivateInst(c, e) ==
  IF c.ent[e].st # "new" THEN c
  ELSE [FireAll(c, e, 1) EXCEPT !.ent[e].st = "ready"]

\* event(I, null) (context.ts 185): an entity that was not active receives
\* the ready signal first (observable.ts 152).
DestroyInst(c, e) ==
  IF c.ent[e].st = "dead" THEN c
  ELSE LET c1 == IF c.ent[e].st = "new" THEN FireAll(c, e, 1) ELSE c
       IN CNote([c1 EXCEPT !.ent[e].st = "dead"], CEv("destroy", "", "", e, ""))

\* One function of a cleanup array of scope x is called.
RunFn(c, x, fn) ==
  IF fn.f = "destroy" THEN DestroyInst(c, fn.e)
  ELSE CNote(c, CEv("clean", fn.s, fn.t, fn.e, x))

RECURSIVE RunFns(_, _, _, _)
RunFns(c, x, fns, i) ==
  IF i > Len(fns) THEN c ELSE RunFns(RunFn(c, x, fns[i]), x, fns, i + 1)

\* The listeners add registers for the expectations seen from scope x, one
\* per key of the entity's class (context.ts 191-203).  addListener calls
\* the listener of an active entity at once (observable.ts 108-110); arr is
\* the array add is filling.
RECURSIVE Hooks(_, _, _, _, _)
Hooks(c, x, I, keys, i) ==
  IF i > Len(keys) THEN c
  ELSE LET s == ExpectsIn(c, x, keys[i])
           l == [s |-> s, t |-> keys[i], x |-> x]
           c1 == IF s = "" THEN c
                 ELSE IF c.ent[I].st = "new"
                 THEN [c EXCEPT !.lsn[I] = Append(@, l)]
                 ELSE [CNote(c, CEv("expect", s, keys[i], I, x))
                         EXCEPT !.arr = <<CleanFn(s, keys[i], I)>> \o @]
       IN Hooks(c1, x, I, keys, i + 1)

\* What add leaves in the scope's own property for key t (context.ts
\* 205-213)
Bound(c, x, I, t, implicit) ==
  IF c.bind[x][t] = "none" THEN I
  ELSE IF This(c, x, t) # I /\ ~implicit THEN "null"
  ELSE c.bind[x][t]

OwnsAny(input) == TRUE

\* add constructs, and owns, the entity of a class (context.ts 182-185)
Owns(input) == input \in Types

\* Context.add (context.ts 177-226)
Add(c, x, input, implicit) ==
  LET I == IF input \in Types THEN MadeNames[c.made + 1] ELSE input
      T == IF input \in Types THEN input ELSE c.ent[input].type
      c1 == IF input \in Types
            THEN [c EXCEPT !.made = @ + 1,
                           !.ent[I] = [st |-> "new", type |-> T, by |-> x]]
            ELSE c
      c2 == [c1 EXCEPT !.arr = IF Owns(input) THEN <<DestroyFn(I)>> ELSE <<>>]
      c3 == Hooks(CNote(c2, CEv("add", "", T, I, x)), x, I, Chain(T), 1)
      c4 == [c3 EXCEPT !.bind[x] = [t \in Types |->
                IF t \in Range(Chain(T)) THEN Bound(c3, x, I, t, implicit)
                ELSE @[t]]]
  IN [c4 EXCEPT !.cleanup[x] = MapSet(@, I, c4.arr), !.arr = <<>>, !.ret = I]

\* Context.delete(state, true) (context.ts 228-251): the functions of the
\* entry run from a copy of the array.
Delete(c, x, v) ==
  LET K == Chain(IF v \in Types THEN v ELSE c.ent[v].type)
      state == IF v \in Types THEN This(c, x, K[1]) ELSE v
      i == IF state \in Insts THEN EntryOf(c, x, state) ELSE 0
      c1 == IF i = 0 THEN c
            ELSE [RunFns(c, x, c.cleanup[x][i].cbs, 1)
                    EXCEPT !.cleanup[x] = MapDelete(@, state)]
  IN [c1 EXCEPT !.bind[x] = [t \in Types |->
        IF t \in Range(K) /\ This(c1, x, t) = state THEN "none" ELSE @[t]]]

Reverse(s) == [i \in DOMAIN s |-> s[Len(s) + 1 - i]]

\* Context.pop (context.ts 276-288)
RECURSIVE Pop(_, _), PopEntries(_, _, _, _)
PopEntries(c, x, es, i) ==
  IF i > Len(es) THEN c
  ELSE PopEntries(IF es[i].e \in Scopes THEN Pop(c, es[i].e)
                  ELSE RunFns(c, x, es[i].cbs, 1), x, es, i + 1)

Pop(c, x) ==
  LET c1 == [c EXCEPT !.bind[x] = [t \in Types |-> "none"], !.exp[x] = {}]
      c2 == PopEntries(CNote(c1, CEv("pop", "", "", "", x)), x,
                       Reverse(c1.cleanup[x]), 1)
  IN [c2 EXCEPT !.inputs[x] = NoInputs, !.cleanup[x] = <<>>,
                !.at[x] = [k \in Range(InputKeys) |-> ""]]

\* Object.keys({...this.inputs, ...inputs}): the keys applied before, then
\* the new ones (context.ts 139)
MergedKeys(old, new) ==
  SelectSeq(InputKeys, LAMBDA k : old[k] # NoInput) \o
  SelectSeq(InputKeys, LAMBDA k : old[k] = NoInput /\ new[k] # NoInput)

SameInputNever(E, I) == FALSE

\* E === I (context.ts 143)
SameInput(E, I) == E = I

\* The first loop of Context.set (context.ts 139-157); init is a Map, so an
\* entity added twice is in it once.  A value that is not a State throws
\* after the entity applied for its key before has been deleted.
RECURSIVE SetKeys(_, _, _, _, _)
SetKeys(c, x, new, ks, i) ==
  IF i > Len(ks) \/ c.err # "" THEN c
  ELSE LET I == new[ks[i]]
           E == c.inputs[x][ks[i]]
           c1 == IF E # NoInput THEN Delete(c, x, E) ELSE c
           a == Add(c1, x, I, FALSE)
           c2 == IF I = Bad
                 THEN [c1 EXCEPT !.at[x][ks[i]] = "", !.err = "invalid"]
                 ELSE IF I # NoInput
                 THEN [a EXCEPT !.init = SeqAdd(@, a.ret),
                                !.impl = @ \ {a.ret},
                                !.at[x][ks[i]] = a.ret]
                 ELSE [c1 EXCEPT !.at[x][ks[i]] = ""]
       IN SetKeys(IF SameInput(E, I) THEN c ELSE c2, x, new, ks, i + 1)

\* The children of entity e are added as implicit (context.ts 164-168):
\* init.set appends a new key and keeps the position of one it holds.
RECURSIVE AddKids(_, _, _, _)
AddKids(c, x, kids, i) ==
  IF i > Len(kids) THEN c
  ELSE LET a == Add(c, x, kids[i], TRUE)
       IN AddKids([a EXCEPT !.init = SeqAdd(@, kids[i]),
                            !.impl = @ \cup {kids[i]}],
                  x, kids, i + 1)

\* The second loop (context.ts 159-169): forEach visits the entries the
\* loop itself appends.
RECURSIVE InitEach(_, _, _)
InitEach(c, x, i) ==
  IF i > Len(c.init) THEN c
  ELSE LET e == c.init[i]
           c1 == ActivateInst(c, e)
           c2 == IF e \in c.impl THEN c1
                 ELSE CNote(c1, CEv("each", "", "", e, ""))
       IN InitEach(AddKids(c2, x, KidsOf(e), 1), x, i + 1)

\* Context.set(inputs, forEach) (context.ts 130-172)
ContextSet(c, x, new) ==
  LET c1 == SetKeys(c, x, new, MergedKeys(c.inputs[x], new), 1)
  IN IF c1.err # ""
     THEN [c1 EXCEPT !.init = <<>>, !.impl = {}, !.ret = ""]
     ELSE [InitEach(c1, x, 1) EXCEPT !.inputs[x] = new, !.init = <<>>,
                                     !.impl = {}, !.ret = ""]

\* The registry before any call, and the record of no call.
NoAt == [k \in Range(InputKeys) |-> ""]

CxInit ==
  [has |-> FALSE,
   inputs |-> [x \in Scopes |-> NoInputs],
   bind |-> [x \in Scopes |-> [t \in Types |-> "none"]],
   exp |-> [x \in Scopes |-> {}],
   cleanup |-> [x \in Scopes |-> <<>>],
   ent |-> [e \in Insts |->
              IF e \in Supplied \cup Wrappers \cup Children
              THEN [st |-> "ready", type |-> SuppliedType(e), by |-> ""]
              ELSE [st |-> "none", type |-> "", by |-> ""]],
   lsn |-> [e \in Insts |-> <<>>],
   made |-> 0, arr |-> <<>>, init |-> <<>>, impl |-> {}, ret |-> "",
   err |-> "",
   at |-> [x \in Scopes |-> NoAt],
   log |-> <<>>]

CxGhostInit ==
  [owe |-> [x \in Scopes |-> 0],
   seq |-> [x \in Scopes |-> <<>>],
   op |-> [name |-> "init", x |-> "", t |-> "",
           ord |-> [x \in Scopes |-> <<>>],
           in |-> NoInputs, prev |-> NoInputs,
           pre |-> [t \in Types |-> "none"],
           exp |-> [x \in Scopes |-> {}],
           was |-> [x \in Scopes |-> NoAt], same |-> FALSE,
           unpaid |-> [s \in Scopes |-> 0]]]

\* ------------------------------------------------------------------ state
VARIABLES
  exist,    \* the entities constructed in this behaviour
  store,    \* STATE: entity -> key -> value
  frozen,   \* Object.isFrozen(store)
  parent,   \* PARENT: "unset" (no entry), "null" or the owner
  lst,      \* LISTENERS: entity -> entries in insertion order
  infl,     \* PENDING: signals of the delivery in progress
  pkeys,    \* PENDING_KEYS: keys of the current batch
  disp,     \* DISPATCH, in insertion order
  timers,   \* outstanding setTimeout callbacks of enqueue
  fx,       \* the closure variables of each watch call
  prom,     \* the promise of each deferred-value marker
  reg,      \* user listeners registered so far
  log,      \* what the last call did (callbacks run, in order)
  cnt,      \* how often each callback has run so far (counted to 2)
  wr,       \* keys written with a changed value since the last tick
  dead,     \* entities destroy has been called on, and the children they owned
  gfx,      \* per effect: keys its latest invocation read; written since?
            \* cancelled?  its latest invocation's cleanup: calls, first
            \* argument, and what called for it first
  gmk,      \* per marker: value first written to its key / destroy called first
  op,       \* the last call
  cx,       \* the context registry: scopes, their entities, last call's log
  gcx       \* registry: cleanups outstanding per scope, and the last call

vars == <<exist, store, frozen, parent, lst, infl, pkeys, disp, timers, fx,
          prom, reg, log, cnt, wr, dead, gfx, gmk, op, cx, gcx>>

\* The variables of the entities and the dispatcher
svars == <<exist, store, frozen, parent, lst, infl, pkeys, disp, timers, fx,
           prom, reg, log, cnt, wr, dead, gfx, gmk, op>>

Names == 1 .. MaxListeners
Peers == 1 .. MaxPeers
\* every user listener there can be
Subs == Names \cup Peers
Fx == 1 .. MaxEffects
Markers == 1 .. MaxMarkers

World ==
  [store |-> store, frozen |-> frozen, parent |-> parent, lst |-> lst,
   infl |-> infl, pkeys |-> pkeys, disp |-> disp, timers |-> timers,
   fx |-> fx, prom |-> prom, log |-> <<>>, err |-> NoErr, ret |-> "void",
   owed |-> Range(disp)]

\* The part of a world a caller can tell apart.
Core(w) == <<w.store, w.frozen, w.parent, w.lst, w.infl, w.pkeys, w.disp,
             w.timers, w.fx, w.prom>>

\* Entries deleted from a Map are gone once no iteration is under way.  The
\* subscription of an invocation that has fired never acts again (its
\* ignore stays true), and is not kept either.
Compact(ls) == SelectSeq(ls, LAMBDA l : l.live /\ ~(l.kind = "obs" /\ l.ign))

CountEv(lg, ev, e, n, sig) ==
  Cardinality({i \in DOMAIN lg : /\ lg[i].ev = ev /\ lg[i].e = e
                                  /\ lg[i].n = n /\ lg[i].sig = sig})

CountRecv(lg, n, sig) ==
  Cardinality({i \in DOMAIN lg : /\ lg[i].ev = "recv" /\ lg[i].n = n
                                  /\ lg[i].sig = sig})

Runs(lg, f) == {i \in DOMAIN lg : lg[i].ev = "run" /\ lg[i].n = f}

\* Positions of the log, after position last, where the cleanup returned by
\* an invocation of effect f was called.
Cleans(lg, f, last) ==
  {i \in DOMAIN lg : lg[i].ev = "clean" /\ lg[i].n = f /\ i > last}

\* The cancel function of effect f was called during the call that led to w.
Cancelled(w, f) ==
  \E i \in DOMAIN w.log : w.log[i].ev = "cancel" /\ w.log[i].n = f

\* Positions of the log where a function returned by a listener wrote.
Writes(lg) == {i \in DOMAIN lg : lg[i].ev = "write"}

Cap(x) == IF x > 2 THEN 2 ELSE x

NoReg == [on |-> FALSE, e |-> "", all |-> FALSE, act |-> "none", pre |-> FALSE]

\* User listeners that are in the Map of their entity.
LiveIn(ls) ==
  {n \in Subs : reg[n].on /\ \E i \in DOMAIN ls[reg[n].e] :
      LET l == ls[reg[n].e][i] IN l.live /\ l.kind = "rec" /\ l.n = n}

NoBatch == [e \in Entities |-> {}]

\* The entity, key and value given to a set(key, value) call
NoArg == [e |-> "", k |-> "", v |-> ""]

\* Children a destroyed entity owns: the property values whose recorded
\* parent it is.
Owned(w, e) ==
  {c \in Entities : w.parent[c] = e /\ \E k \in AllKeys : w.store[e][k] = c}

\* Entities destroy was called on during the call that led to w.
Destroyed(w) == {e \in Entities : \E i \in DOMAIN w.log :
                   w.log[i].ev = "destroy" /\ w.log[i].e = e}

\* The last call: its name, the error it threw, whether its entity was ready
\* before it, whether destroy had been called on it before, whether it wrote
\* the value a key already had, whether it left the program state as it was,
\* the key it wrote with a changed value, the user listeners subscribed
\* before it, and for a tick the keys written since the last tick, the
\* effects with a watched key written, and the functions passed to enqueue
\* that were not called afterwards and are not in DISPATCH when it returns.
Op(name, e) ==
  [name |-> name, err |-> NoErr,
   wasReady |-> IF e \in Entities THEN ~HasOnReady(World, e) ELSE FALSE,
   wasDead |-> e \in dead,
   same |-> FALSE, quiet |-> FALSE, hit |-> "", batch |-> NoBatch,
   lsn |-> LiveIn(lst), stale |-> {}, arg |-> NoArg, lost |-> {}]

\* A value-changing write of key k of entity e (k = "" for other calls)
Hit(e, k) == [e |-> e, k |-> k]
NoHit == Hit("", "")

Commit(w, o, hit) ==
  /\ store' = w.store
  /\ frozen' = w.frozen
  /\ parent' = w.parent
  /\ lst' = [e \in Entities |-> Compact(w.lst[e])]
  /\ infl' = w.infl
  /\ pkeys' = w.pkeys
  /\ disp' = w.disp
  /\ timers' = w.timers
  /\ fx' = w.fx
  /\ prom' = w.prom
  /\ log' = w.log
  /\ cnt' = [ready |-> [n \in Subs |-> Cap(cnt.ready[n] +
                 CountRecv(w.log, n, Ready))],
             term |-> [n \in Subs |-> Cap(cnt.term[n] +
                 CountRecv(w.log, n, Term))],
             promote |-> [e \in Entities |-> Cap(cnt.promote[e] +
                 CountEv(w.log, "promote", e, 0, ""))],
             kids |-> [e \in Entities |-> Cap(cnt.kids[e] +
                 CountEv(w.log, "kids", e, 0, ""))]]
  /\ wr' = IF o.name = "Tick" THEN NoBatch
           ELSE IF hit.k # "" THEN [wr EXCEPT ![hit.e] = @ \cup {hit.k}]
           ELSE wr
  /\ dead' = dead \cup Destroyed(w)
                  \cup UNION {Owned(w, e) : e \in Destroyed(w)}
  /\ gfx' = [f \in Fx |->
       LET last == IF Runs(w.log, f) = {} THEN 0
                   ELSE CHOOSE i \in Runs(w.log, f) :
                          \A j \in Runs(w.log, f) : j <= i
           reads == IF last = 0 THEN gfx[f].reads ELSE w.log[last].ks
           active == w.fx[f].reset = "invoke"
           before == last = 0 /\ gfx[f].stale
           now == hit.k \in reads /\ hit.e = fx[f].e
           inPass == \E j \in Writes(w.log) :
                       j > last /\ w.log[j].e = w.fx[f].e /\ w.log[j].ks \subseteq reads
           ran == last # 0
           cl == Cleans(w.log, f, last)
           arg0 == IF ran THEN "" ELSE gfx[f].arg
           trig0 == IF ran THEN "" ELSE gfx[f].trig
           trigNow == IF Cancelled(w, f) THEN "false"
                      ELSE IF fx[f].made /\ fx[f].e \in Destroyed(w) THEN "null"
                      ELSE IF now THEN "true" ELSE ""
       IN [reads |-> reads,
           stale |-> before \/ (active /\ (now \/ inPass)),
           cancelled |-> gfx[f].cancelled \/ Cancelled(w, f),
           open |-> IF ran THEN w.fx[f].out = "fn" ELSE gfx[f].open,
           n |-> Cap((IF ran THEN 0 ELSE gfx[f].n) + Cardinality(cl)),
           arg |-> IF arg0 # "" \/ cl = {} THEN arg0
                   ELSE w.log[CHOOSE i \in cl : \A j \in cl : i <= j].sig,
           trig |-> IF trig0 # "" THEN trig0 ELSE trigNow]]
  /\ gmk' = [m \in Markers |->
       IF ~prom[m].made \/ gmk[m].written \/ gmk[m].killed THEN gmk[m]
       ELSE IF hit.e = prom[m].e /\ hit.k = prom[m].k
       THEN [gmk[m] EXCEPT !.written = TRUE,
                           !.val = w.store[hit.e][hit.k]]
       ELSE IF prom[m].e \in Destroyed(w)
       THEN [gmk[m] EXCEPT !.killed = TRUE]
       ELSE gmk[m]]
  /\ op' = [o EXCEPT !.err = w.err, !.quiet = (Core(w) = Core(World)),
                     !.hit = hit.k]
  /\ UNCHANGED <<cx, gcx>>

InitWith(es) ==
  /\ exist = es
  /\ store = [e \in Entities |-> [k \in AllKeys |-> Absent]]
  /\ frozen = [e \in Entities |-> FALSE]
  /\ parent = [e \in Entities |-> "unset"]
  /\ lst = [e \in Entities |-> IF e \in es THEN <<OnReadyL, InstrL, InitL>>
                               ELSE <<>>]
  /\ infl = [e \in Entities |-> <<>>]
  /\ pkeys = [e \in Entities |-> {}]
  /\ disp = <<>>
  /\ timers = 0
  /\ fx = [f \in Fx |-> [made |-> FALSE, e |-> "", body |-> "", out |-> "",
                         reset |-> "undef", unset |-> FALSE]]
  /\ prom = [m \in Markers |-> [made |-> FALSE, e |-> "", k |-> "",
                                st |-> "none", val |-> Absent, then |-> 0]]
  /\ reg = [n \in Subs |-> NoReg]
  /\ log = <<>>
  /\ cnt = [ready |-> [n \in Subs |-> 0], term |-> [n \in Subs |-> 0],
            promote |-> [e \in Entities |-> 0], kids |-> [e \in Entities |-> 0]]
  /\ wr = NoBatch
  /\ dead = {}
  /\ gfx = [f \in Fx |-> [reads |-> {}, stale |-> FALSE, cancelled |-> FALSE,
                          open |-> FALSE, n |-> 0, arg |-> "", trig |-> ""]]
  /\ gmk = [m \in Markers |-> [written |-> FALSE, val |-> Absent,
                               killed |-> FALSE]]
  /\ op = [name |-> "init", err |-> NoErr, wasReady |-> FALSE,
           wasDead |-> FALSE, same |-> FALSE, quiet |-> FALSE, hit |-> "",
           batch |-> NoBatch, lsn |-> {}, stale |-> {}, arg |-> NoArg,
           lost |-> {}]
  /\ cx = CxInit
  /\ gcx = CxGhostInit

\* ---------------------------------------------------------------- actions
\* State.new's event(instance) (state.ts 368-372)
Activate(e) ==
  /\ e \in exist
  /\ Commit(Emit(World, e, Ready), Op("Activate", e), NoHit)
  /\ UNCHANGED <<exist, reg>>

\* state.set(null) (state.ts 327-351 -> event(self, null))
Destroy(e) ==
  /\ e \in exist
  /\ Commit(Event(Note(World, Ev("destroy", e, 0, "", {})), e, Term, FALSE),
            Op("Destroy", e), NoHit)
  /\ UNCHANGED <<exist, reg>>

\* Assignment to a managed property of a ready entity.
Write(e, k, v) ==
  /\ e \in exist
  /\ ~HasOnReady(World, e)
  /\ k \in KeysOf(e)
  /\ LET w == SetProp(World, e, k, v, "none")
         changed == store[e][k] # v
     IN Commit(w, [Op("Write", e) EXCEPT !.same = ~changed],
               IF changed /\ w.err = NoErr THEN Hit(e, k) ELSE NoHit)
  /\ UNCHANGED <<exist, reg>>

\* addListener(state, callback) or state.get(null, callback)
Listen(n, e, all, act) ==
  /\ e \in exist
  /\ ~reg[n].on
  /\ \A m \in Subs : m < n => reg[m].on
  /\ reg' = [reg EXCEPT ![n] = [on |-> TRUE, e |-> e, all |-> all,
                                act |-> act, pre |-> HasOnReady(World, e)]]
  /\ Commit(AddListener(World, e,
              Lst("rec", all, IF all THEN {} ELSE {Term}, n, act)),
            Op("Listen", e), NoHit)
  /\ UNCHANGED exist

\* state.get(effect) (state.ts 573-581 -> watch, observable.ts 229-300)
StartEffect(f, e, body, out) ==
  /\ e \in exist
  /\ ~fx[f].made
  /\ \A g \in Fx : g < f => fx[g].made
  /\ Commit(AddListener([World EXCEPT !.fx[f] =
                [made |-> TRUE, e |-> e, body |-> body, out |-> out,
                 reset |-> "undef", unset |-> FALSE]], e, EffL(f)),
            Op("StartEffect", e), NoHit)
  /\ UNCHANGED <<exist, reg>>

\* The function state.get(effect) returned is called.
Cancel(f) ==
  /\ fx[f].made
  /\ Commit(Cleanup(World, f), Op("Cancel", fx[f].e), NoHit)
  /\ UNCHANGED <<exist, reg>>

\* state.get(key, true) of a key that is not in the store (access, state.ts
\* 610-642): the marker is thrown after its listener is registered.
Read(m, e, k) ==
  /\ e \in exist
  /\ k \in Required(e)
  /\ store[e][k] = Absent
  /\ ~prom[m].made
  /\ \A g \in Markers : g < m => prom[g].made
  /\ LET w == AddListener([World EXCEPT !.prom[m] =
                  [made |-> TRUE, e |-> e, k |-> k, st |-> "pending",
                   val |-> Absent, then |-> 0]], e, AccL(m))
     IN Commit([w EXCEPT !.err = "suspense"], Op("Read", e), NoHit)
  /\ UNCHANGED <<exist, reg>>

\* event(state, key, silent) (observable.ts 171-191), also state.set(key)
Dispatch(e, k, silent) ==
  /\ e \in exist
  /\ ~HasOnReady(World, e)
  /\ k \in KeysOf(e)
  /\ Commit(Event(World, e, k, silent),
            Op(IF silent THEN "Silent" ELSE "Dispatch", e), Hit(e, k))
  /\ UNCHANGED <<exist, reg>>

\* state.set({ [key]: value }, true) on a ready entity
AssignSilent(e, k, v) ==
  /\ e \in exist
  /\ ~HasOnReady(World, e)
  /\ k \in KeysOf(e)
  /\ LET w == Assign(World, e, k, v, TRUE)
     IN Commit(w, Op("Assign", e),
               IF w.store[e][k] # store[e][k] THEN Hit(e, k) ELSE NoHit)
  /\ UNCHANGED <<exist, reg>>

\* state.set(key, value) on a ready entity
SetKey(e, k, v) ==
  /\ e \in exist
  /\ ~HasOnReady(World, e)
  /\ k \in KeysOf(e)
  /\ LET w == StateSet(World, e, k, v)
     IN Commit(w, [Op("SetKey", e) EXCEPT !.same = (store[e][k] = v),
                     !.arg = [e |-> e, k |-> k, v |-> v]],
               IF w.store[e][k] # store[e][k] THEN Hit(e, k) ELSE NoHit)
  /\ UNCHANGED <<exist, reg>>

\* The timer set by enqueue fires.
\* A resolved promise whose then callback has not run yet.
Settled(m) == prom[m].st = "resolved" /\ prom[m].then # 0

\* The microtask of a resolved marker: the invoke chained to it runs
\* (observable.ts 276).
Micro(m) ==
  /\ Settled(m)
  /\ Commit(Invoke([World EXCEPT !.prom[m].then = 0], prom[m].then),
            Op("Micro", prom[m].e), NoHit)
  /\ UNCHANGED <<exist, reg>>

\* The timer of enqueue fires; microtasks run before timers.
Tick ==
  /\ timers > 0
  /\ \A m \in Markers : ~Settled(m)
  /\ LET w == RunDispatch([World EXCEPT !.timers = @ - 1], 1)
     IN Commit(w, [Op("Tick", "") EXCEPT !.batch = wr,
                     !.stale = {f \in Fx : gfx[f].stale},
                     !.lost = w.owed \ Range(w.disp)],
               NoHit)
  /\ UNCHANGED <<exist, reg>>

\* What a user listener may be: unfiltered or for the terminal signal only;
\* recording only, or destroying its entity when called with a key.
ListenerKinds == {<<TRUE, "none">>, <<FALSE, "none">>, <<TRUE, "destroy">>}
\* and, where effects are watched, returning a function that writes.
WritingKinds == ListenerKinds \cup {<<TRUE, "after">>}

Bodies == {"a", "ab"}
Outs == {"fn", "null"}

\* One standalone entity with listeners and effects.
Next ==
  \/ Activate("E")
  \/ Destroy("E")
  \/ \E k \in KeysOf("E"), v \in Values : Write("E", k, v)
  \/ \E n \in Names, kind \in WritingKinds : Listen(n, "E", kind[1], kind[2])
  \/ \E f \in Fx, body \in Bodies, out \in Outs : StartEffect(f, "E", body, out)
  \/ Tick

Init == InitWith({"E"})
Spec == Init /\ [][Next]_vars

\* One standalone entity with effects that can be cancelled.
NextEffect ==
  \/ Activate("E")
  \/ Destroy("E")
  \/ \E k \in KeysOf("E"), v \in Values : Write("E", k, v)
  \/ \E f \in Fx, body \in Bodies, out \in Outs : StartEffect(f, "E", body, out)
  \/ \E f \in Fx : Cancel(f)
  \/ Tick

InitEffect == InitWith({"E"})
SpecEffect == InitEffect /\ [][NextEffect]_vars

\* One standalone entity with an effect that reads the required key.
NextSuspend ==
  \/ Activate("E")
  \/ Destroy("E")
  \/ \E k \in KeysOf("E"), v \in Values : Write("E", k, v)
  \/ \E f \in Fx, out \in Outs : StartEffect(f, "E", "ar", out)
  \/ \E f \in Fx : Cancel(f)
  \/ \E m \in Markers : Micro(m)
  \/ Tick

InitSuspend == InitWith({"E"})
SpecSuspend == InitSuspend /\ [][NextSuspend]_vars

\* One standalone entity with listeners and required reads.
NextMarker ==
  \/ Activate("E")
  \/ Destroy("E")
  \/ \E k \in KeysOf("E"), v \in Values : Write("E", k, v)
  \/ \E n \in Names, kind \in ListenerKinds : Listen(n, "E", kind[1], kind[2])
  \/ \E m \in Markers, k \in Required("E") : Read(m, "E", k)
  \/ Tick

InitMarker == InitWith({"E"})
SpecMarker == InitMarker /\ [][NextMarker]_vars

\* A parent and its two children; user listeners are registered on the
\* parent, the children have the cleanup their new() returns.
NextTree ==
  \/ \E e \in Tree : Activate(e)
  \/ \E e \in Tree : Destroy(e)
  \/ \E e \in Tree : Write(e, Fields(e)[1], "1")
  \/ \E n \in Names, kind \in ListenerKinds : Listen(n, "P", kind[1], kind[2])
  \/ Tick

InitTree == InitWith(Tree)
SpecTree == InitTree /\ [][NextTree]_vars

\* What the user listeners of a pass may do: record only, write or throw
\* when the batch is flushed, unsubscribe the other listener, return null,
\* dispatch the key received once more, destroy the entity.
PeerKinds == {<<TRUE, "none">>, <<TRUE, "write">>, <<TRUE, "throw">>,
              <<TRUE, "unsub">>, <<TRUE, "null">>, <<TRUE, "echo">>,
              <<TRUE, "destroy">>}

\* One standalone entity with two user listeners that act during delivery.
NextPass ==
  \/ Activate("E")
  \/ Destroy("E")
  \/ \E k \in Range(Fields("E")), v \in Values : Write("E", k, v)
  \/ \E n \in Peers, kind \in PeerKinds : Listen(n, "E", kind[1], kind[2])
  \/ Tick

\* One standalone entity with two user listeners, of which one may throw
\* when a key is emitted directly.
FailKinds == {<<TRUE, "none">>, <<TRUE, "fail">>}

NextFail ==
  \/ Activate("E")
  \/ \E k \in Range(Fields("E")), v \in Values : Write("E", k, v)
  \/ \E n \in Peers, kind \in FailKinds : Listen(n, "E", kind[1], kind[2])
  \/ Tick

InitFail == InitWith({"E"})
SpecFail == InitFail /\ [][NextFail]_vars

\* One standalone entity whose keys are dispatched, silently or not, and set
\* by name.
NextSet ==
  \/ Activate("E")
  \/ Destroy("E")
  \/ \E k \in Range(Fields("E")), v \in Values : Write("E", k, v)
  \/ \E k \in Range(Fields("E")), silent \in BOOLEAN : Dispatch("E", k, silent)
  \/ \E k \in Range(Fields("E")), v \in Values : SetKey("E", k, v)
  \/ \E k \in Range(Fields("E")), v \in Values : AssignSilent("E", k, v)
  \/ \E n \in Names, kind \in ListenerKinds : Listen(n, "E", kind[1], kind[2])
  \/ Tick

InitSet == InitWith({"E"})
SpecSet == InitSet /\ [][NextSet]_vars

InitPass == InitWith({"E"})
SpecPass == InitPass /\ [][NextPass]_vars

\* ------------------------------------------------ context: state, calls
\* What a caller can tell apart of the registry.
CxCore(c) == <<c.has, c.inputs, c.bind, c.exp, c.cleanup, c.ent, c.lsn,
               c.made>>

CxCount(lg, ev, x) ==
  Cardinality({i \in DOMAIN lg : lg[i].ev = ev /\ lg[i].x = x})

\* The last call on the registry: its name and scope, for a lookup its type,
\* mode and outcome, for set the inputs given and those applied before; the
\* bindings of R, the expectations and the entity registered for each input
\* key before the call; whether the call left the registry as it was; and
\* the entities of each scope in the order of their latest registration
\* before the call; and per scope the cleanups returned by expectation
\* callbacks and not called when the call returned.
CxOp(name, x) ==
  [name |-> name, x |-> x, t |-> "",
   in |-> NoInputs, prev |-> cx.inputs[x],
   pre |-> [t \in Types |-> This(cx, "R", t)],
   exp |-> cx.exp, was |-> cx.at, same |-> FALSE,
   ord |-> gcx.seq,
   unpaid |-> [s \in Scopes |-> 0]]

Fresh == [cx EXCEPT !.log = <<>>, !.err = ""]

\* The entities of scope x in the order of their latest registration: each
\* add of the log moves its entity to the end.
RECURSIVE Order(_, _, _, _)
Order(seq, lg, x, i) ==
  IF i > Len(lg) THEN seq
  ELSE Order(IF lg[i].ev = "add" /\ lg[i].x = x
             THEN Append(SelectSeq(seq, LAMBDA e : e # lg[i].e), lg[i].e)
             ELSE seq, lg, x, i + 1)

CxCommit(c, o) ==
  LET left == [x \in Scopes |-> gcx.owe[x] + CxCount(c.log, "expect", x)
                                  - CxCount(c.log, "clean", x)]
  IN /\ cx' = c
     /\ gcx' = [owe |-> [x \in Scopes |->
                   IF CxCount(c.log, "pop", x) > 0 THEN 0 ELSE left[x]],
                seq |-> [x \in Scopes |->
                   SelectSeq(Order(gcx.seq[x], c.log, x, 1),
                             LAMBDA e : EntryOf(c, x, e) # 0)],
                op |-> [o EXCEPT !.unpaid = left,
                                 !.same = (CxCore(c) = CxCore(cx))]]
     /\ UNCHANGED svars

\* R.push() (context.ts 258-269)
Push ==
  /\ ~cx.has
  /\ CxCommit([Fresh EXCEPT !.has = TRUE,
                 !.cleanup["R"] = Append(@, [e |-> "K", cbs |-> <<>>])],
              CxOp("Push", "K"))

\* scope.set(inputs, forEach)
SetAll(x, new) ==
  /\ x = "K" => cx.has
  /\ cx.made + Cardinality({k \in Range(InputKeys) :
        new[k] \in Types /\ new[k] # cx.inputs[x][k]}) <= MaxMade
  /\ gcx.owe[x] < MaxOwed
  /\ CxCommit(ContextSet(Fresh, x, new), [CxOp("Set", x) EXCEPT !.in = new])

\* scope.get(Type, callback) (context.ts 99-108)
Expect(x, t) ==
  /\ x = "K" => cx.has
  /\ t \notin cx.exp[x]
  /\ CxCommit([Fresh EXCEPT !.exp[x] = @ \cup {t}],
              [CxOp("Expect", x) EXCEPT !.t = t])

\* scope.pop()
PopScope(x) ==
  /\ x = "K" => cx.has
  /\ CxCommit(Pop(Fresh, x), CxOp("Pop", x))

\* One scope: the inputs name up to two keys.
NextRegistry ==
  \/ \E new \in Inputs : SetAll("R", new)
  \/ PopScope("R")

InitRegistry == InitWith({})
SpecRegistry == InitRegistry /\ [][NextRegistry]_vars

\* A scope and the scope pushed from it, with expectations: the inputs
\* given to R name key x, those given to K up to two keys with class A or
\* instance i1.
InputsOf(x) ==
  {new \in Inputs : /\ x = "K" => \A k \in Range(InputKeys) : new[k] # "i2"
                    /\ x = "R" => new["y"] = NoInput}

ExpectTypes == {"A"}

NextContext ==
  \/ Push
  \/ \E x \in Scopes : \E new \in InputsOf(x) : SetAll(x, new)
  \/ \E x \in Scopes, t \in ExpectTypes : Expect(x, t)
  \/ \E x \in Scopes : PopScope(x)

InitContext == InitWith({})
SpecContext == InitContext /\ [][NextContext]_vars

\* One scope whose inputs may name an entity with a child entity and a
\* value that is not a State.
NextInputs ==
  \/ \E new \in WideInputs : SetAll("R", new)
  \/ PopScope("R")

InitInputs == InitWith({})
SpecInputs == InitInputs /\ [][NextInputs]_vars

\* ------------------------------------------------------------- properties
\* Positions of the log where user listener n received signal sig.
Recv(n, sig) ==
  {i \in DOMAIN log : log[i].ev = "recv" /\ log[i].n = n /\ log[i].sig = sig}

\* Positions of the log where something of kind ev happened on entity e.
At(ev, e) == {i \in DOMAIN log : log[i].ev = ev /\ log[i].e = e}

\* The entity of a Destroy call (the first entry of its log).
Target == IF log = <<>> THEN "" ELSE log[1].e

\* C1: when fields of an entity are written with changed values within one
\* tick, every unfiltered listener subscribed at the tick receives a flushed
\* signal in the tick's pass whose change-set is exactly the set of keys
\* written, before anything else is written, and no other flushed signal
\* unless a function run by the pass writes again; with nothing written it
\* receives none.
C1_OneFlushPerTick ==
  op.name = "Tick" =>
    \A n \in op.lsn : reg[n].all =>
      IF op.batch[reg[n].e] = {}
      THEN Recv(n, Flush) = {} /\ Writes(log) = {}
      ELSE /\ Recv(n, Flush) # {}
           /\ \A i \in Recv(n, Flush) :
                \/ log[i].ks = op.batch[reg[n].e] /\ \A j \in Writes(log) : i < j
                \/ \E j \in Writes(log) : j < i
           /\ Writes(log) = {} => Cardinality(Recv(n, Flush)) = 1
           /\ Cardinality({i \in Recv(n, Flush) : \A j \in Writes(log) : i < j})
                = 1

\* A tick after two fields were written, with an unfiltered listener that
\* received the flush of both.
C1_Witness ==
  /\ op.name = "Tick"
  /\ op.batch["E"] = {"a", "b"}
  /\ \E n \in op.lsn : reg[n].all /\ \E i \in Recv(n, Flush) :
       log[i].ks = {"a", "b"}

\* C2 (as stated): once a key read by the latest invocation of an active effect is
\* written with a changed value, a re-invocation is queued for the next pass
\* (and its timer is set), and that pass invokes the effect exactly once,
\* however many watched keys were written before it.
C2_StaleEffectReInvokedOnce ==
  /\ \A f \in Fx : gfx[f].stale =>
       InvokeTask(f) \in Range(disp) /\ timers > 0
  /\ op.name = "Tick" => \A f \in op.stale : Cardinality(Runs(log, f)) = 1

\* C3: an effect is queued for re-invocation, and re-invoked by a pass, only
\* when a key its latest invocation read was written (before the pass, or
\* earlier in the pass by a function the pass ran; such a function writes a,
\* which every effect reads): writes to other keys of the entity queue and
\* run nothing.
C3_UnwatchedWriteNoReInvoke ==
  /\ \A f \in Fx : InvokeTask(f) \in Range(disp) => gfx[f].stale
  /\ op.name = "Tick" =>
       \A f \in Fx : \A i \in Runs(log, f) :
         \/ f \in op.stale
         \/ \E j \in Writes(log) : j < i /\ log[j].ks \subseteq log[i].ks

\* A changed value was just written to b while the active effect's latest
\* invocation had read only a: nothing is queued for it.
C3_Witness ==
  /\ op.name = "Write"
  /\ op.hit = "b"
  /\ fx[1].reset = "invoke"
  /\ gfx[1].reads = {"a"}
  /\ ~gfx[1].stale
  /\ InvokeTask(1) \notin Range(disp)

\* C4: writing to an existing key the value it already has changes nothing:
\* the store, the listeners, the pending batch and the queue are as before
\* and no callback runs.
C4_SameValueWriteIsNoOp ==
  op.name = "Write" /\ op.same => op.quiet /\ log = <<>> /\ op.hit = ""

\* A same-value write to a live entity with an unfiltered listener.
C4_Witness ==
  /\ op.name = "Write"
  /\ op.same
  /\ op.err = NoErr
  /\ \E n \in LiveIn(lst) : reg[n].all

ChildTerm(i) ==
  log[i].e \in {"C1", "C2"} /\ log[i].ev \in {"unhook", "kids"}

ParentTerm(i) ==
  /\ log[i].e = "P"
  /\ \/ log[i].ev = "unhook"
     \/ log[i].ev = "recv" /\ log[i].sig = Term

\* C6 (as stated): destroying P, which owns C1 and C2, runs every terminal
\* listener of C1 and of C2 before any terminal listener of P.
C6_ChildrenBeforeParent ==
  (/\ op.name = "Destroy" /\ Target = "P" /\ ~op.wasDead
   /\ parent["C1"] = "P" /\ parent["C2"] = "P") =>
     \A i, j \in DOMAIN log : ChildTerm(i) /\ ParentTerm(j) => i < j

C9_NoReadyOnEarlyDestroy ==
  op.name = "Destroy" /\ ~op.wasReady =>
    /\ At("promote", Target) = {} /\ At("new", Target) = {}
    /\ \A n \in Names : Recv(n, Ready) = {}

\* C9 (amended): destroying an entity that was never activated delivers
\* ready first: the ready handler runs (promotion, then new()), every
\* unfiltered listener receives ready before it receives the terminal
\* signal, and the store ends frozen.
C9_ReadyBeforeTerminal ==
  op.name = "Destroy" /\ ~op.wasReady =>
    /\ At("promote", Target) # {}
    /\ At("new", Target) # {}
    /\ \A i \in At("promote", Target), j \in At("new", Target) : i < j
    /\ \A n \in Names : reg[n].on /\ reg[n].e = Target /\ reg[n].all =>
         /\ Cardinality(Recv(n, Ready)) = 1
         /\ Recv(n, Term) # {}
         /\ \A i \in Recv(n, Ready), j \in Recv(n, Term) : i < j
    /\ \A i \in At("promote", Target), j \in At("kids", Target) : i < j
    /\ frozen[Target]

\* P is destroyed before it was ever activated, with an unfiltered listener.
C9_Witness ==
  /\ op.name = "Destroy"
  /\ ~op.wasReady
  /\ Target = "P"
  /\ \E n \in Names : reg[n].on /\ reg[n].all /\ Recv(n, Ready) # {}

\* C10: a marker resolves, with the value written, once its key is written,
\* rejects once its entity is destroyed with the key still unwritten, and
\* settles in no other case.
C10_MarkerSettles ==
  \A m \in Markers :
    /\ gmk[m].written => prom[m].st = "resolved" /\ prom[m].val = gmk[m].val
    /\ gmk[m].killed => prom[m].st = "rejected"
    /\ prom[m].st = "resolved" => gmk[m].written
    /\ prom[m].st = "rejected" => gmk[m].killed
    /\ prom[m].made /\ ~gmk[m].written /\ ~gmk[m].killed =>
         prom[m].st = "pending"

\* A marker resolved by a write that made its entity's listener destroy it.
C10_Witness ==
  /\ op.name = "Write"
  /\ op.hit = "r"
  /\ prom[1].st = "resolved"
  /\ prom[1].val = "1"
  /\ frozen["E"]

\* C11 (as stated): once the function returned for an effect has been
\* called, no later call invokes the effect's callback again.
C11_NoInvokeAfterCancel ==
  \A f \in Fx : gfx[f].cancelled => Runs(log, f) = {}

\* C12 (as stated): the cleanup returned by the latest invocation of an
\* effect has not been called while nothing called for it, and has been
\* called exactly once, with the argument of what came first (true: a
\* watched key changed, false: cancelled, null: the entity was destroyed),
\* from then on.
C12_CleanupExactlyOnce ==
  \A f \in Fx : gfx[f].open =>
    IF gfx[f].trig = "" THEN gfx[f].n = 0
    ELSE gfx[f].n = 1 /\ gfx[f].arg = gfx[f].trig

\* Entities registered for the input keys applied to scope x.
Registered(x) == {cx.at[x][k] : k \in Range(InputKeys)} \ {""}

\* Entity e is an instance of class t.
HasType(e, t) == t \in Range(Chain(cx.ent[e].type))

\* Positions of the registry's log with an event of kind ev about entity e.
CxAt(ev, e) == {i \in DOMAIN cx.log : cx.log[i].ev = ev /\ cx.log[i].e = e}

\* C13 (as stated): while two distinct entities of a type are registered for
\* the input keys of one scope, every lookup of that type in the scope,
\* required or optional, fails as ambiguous.
C13_TwoOfATypeAmbiguous ==
  \A x \in Scopes, t \in Types :
    (\E e1, e2 \in Registered(x) : e1 # e2 /\ HasType(e1, t) /\ HasType(e2, t))
      => \A require \in BOOLEAN : Get(cx, x, t, require) = "ambiguous"

\* C14 (as stated): while one instance is registered for both input keys of
\* a scope, the lookup of each of its types in that scope returns it.
C14_SameInstanceNotAmbiguous ==
  \A x \in Scopes :
    LET e == cx.at[x]["x"]
    IN (e # "" /\ cx.at[x]["y"] = e) =>
         \A t \in Types, require \in BOOLEAN :
           HasType(e, t) => Get(cx, x, t, require) = e

\* C15: a lookup in K of a type K does not bind gives what the same lookup
\* in R gives, and no call on K changes what a lookup in R gives.
C15_ChildDelegatesToParent ==
  /\ cx.has =>
       \A t \in Types, require \in BOOLEAN :
         cx.bind["K"][t] = "none" =>
           Get(cx, "K", t, require) = Get(cx, "R", t, require)
  /\ gcx.op.x = "K" =>
       \A t \in Types : This(cx, "R", t) = gcx.op.pre[t]

\* R holds i2, a B; the last call registered i1 in K: K finds i2 for B,
\* which it does not bind, and i1 for A, and R still finds i2 for A.
C15_Witness ==
  /\ cx.has
  /\ gcx.op.name = "Set" /\ gcx.op.x = "K"
  /\ cx.bind["K"]["B"] = "none" /\ cx.bind["K"]["A"] = "i1"
  /\ Get(cx, "K", "B", TRUE) = "i2" /\ Get(cx, "K", "A", TRUE) = "i1"
  /\ gcx.op.pre["A"] = "i2" /\ Get(cx, "R", "A", TRUE) = "i2"

\* C16 (as stated): during a set call on scope x, each expectation callback
\* registered before the call in x or in the scope x was pushed from is
\* called exactly once with each entity of its type the call registers.
C16_ExpectationOncePerEntity ==
  gcx.op.name = "Set" =>
    \A s \in Scopes, e \in Insts :
      \A t \in gcx.op.exp[s] :
        (/\ s = gcx.op.x \/ (s = "R" /\ gcx.op.x = "K")
         /\ CxAt("add", e) # {}
         /\ HasType(e, t))
        => Cardinality({i \in CxAt("expect", e) :
                          cx.log[i].s = s /\ cx.log[i].t = t}) = 1

\* C17 (as stated): a cleanup returned by an expectation callback is called
\* only by a call that pops the scope its entity was registered in (or by
\* a set call on that scope that drops or replaces an input key), never
\* more often than it was returned, and when the scope has been popped
\* every cleanup returned for its entities has been called.
C17_CleanupOnceAtPop ==
  /\ \A x \in Scopes : gcx.owe[x] >= 0 /\ gcx.op.unpaid[x] >= 0
  /\ \A i \in DOMAIN cx.log : cx.log[i].ev = "clean" =>
       \/ CxCount(cx.log, "pop", cx.log[i].x) > 0
       \/ /\ gcx.op.name = "Set" /\ gcx.op.x = cx.log[i].x
          /\ \E k \in Range(InputKeys) :
               gcx.op.prev[k] # NoInput /\ gcx.op.prev[k] # gcx.op.in[k]
  /\ \A x \in Scopes : CxCount(cx.log, "pop", x) > 0 => gcx.op.unpaid[x] = 0

\* C18 (as stated): after a set call that drops or replaces an input key,
\* the entity that was registered for the key, unless the call registers it
\* again, is no longer what a lookup of any type in the scope returns, and
\* it is destroyed if the scope constructed it.
C18_DroppedKeyUnregisters ==
  gcx.op.name = "Set" =>
    \A k \in Range(InputKeys) :
      LET e == gcx.op.was[gcx.op.x][k]
      IN (/\ gcx.op.prev[k] # NoInput
          /\ gcx.op.prev[k] # gcx.op.in[k]
          /\ e \notin Registered(gcx.op.x))
         => /\ \A t \in Types, require \in BOOLEAN :
                 Get(cx, gcx.op.x, t, require) # e
            /\ cx.ent[e].by = gcx.op.x => cx.ent[e].st = "dead"

C20_OnlyOwnedDestroyed ==
  \A i \in DOMAIN cx.log : cx.log[i].ev = "destroy" =>
    LET by == cx.ent[cx.log[i].e].by
    IN /\ cx.log[i].e \in Made
       /\ by = gcx.op.x \/ (gcx.op.name = "Pop" /\ gcx.op.x = "R" /\ by = "K")

\* K was popped while it held an instance passed in and an entity it had
\* constructed, and R held an entity R had constructed: only K's is dead.
C20_Witness ==
  /\ gcx.op.name = "Pop" /\ gcx.op.x = "K"
  /\ gcx.op.was["K"]["y"] = "i1"
  /\ gcx.op.was["K"]["x"] \in Made
  /\ cx.ent[gcx.op.was["K"]["x"]].st = "dead"
  /\ cx.at["R"]["x"] \in Made
  /\ cx.ent[cx.at["R"]["x"]].st = "ready"
  /\ cx.ent["i1"].st = "ready"

\* Positions of the registry's log where a function of a cleanup array ran:
\* a destroy closure or a cleanup an expectation callback returned.
Torn == {i \in DOMAIN cx.log : cx.log[i].ev \in {"destroy", "clean"}}

\* The scope whose cleanup array held the function that ran at position i.
TornIn(i) ==
  IF cx.log[i].ev = "clean" THEN cx.log[i].x ELSE cx.ent[cx.log[i].e].by

\* Rank of entity e in the registration order of scope x before the call.
Rank(x, e) ==
  IF \E r \in DOMAIN gcx.op.ord[x] : gcx.op.ord[x][r] = e
  THEN CHOOSE r \in DOMAIN gcx.op.ord[x] : gcx.op.ord[x][r] = e
  ELSE 0

\* C21 (as stated): when R is popped, every entity K constructed is
\* destroyed before any entity R constructed, and within a popped scope
\* the functions registered for a later registered entity run before those
\* of an earlier registered one, and for one entity the cleanups returned
\* by expectation callbacks run before the destroy closure registered
\* before them.
C21_ChildrenFirstLatestFirst ==
  gcx.op.name = "Pop" =>
    /\ \A i, j \in Torn :
         (/\ cx.log[i].ev = "destroy" /\ cx.log[j].ev = "destroy"
          /\ gcx.op.x = "R" /\ TornIn(i) = "K" /\ TornIn(j) = "R") => i < j
    /\ \A i, j \in Torn :
         (/\ i < j /\ TornIn(i) = TornIn(j)) =>
           /\ Rank(TornIn(i), cx.log[i].e) >= Rank(TornIn(j), cx.log[j].e)
           /\ cx.log[i].e = cx.log[j].e => cx.log[i].ev = "clean"

\* C26 (as stated): once the terminal signal of an entity has been
\* delivered (its store is frozen) no listener is left in its Map, and
\* registering a callback on an entity destroy has been called on calls
\* nothing.
C26_NoLateListener ==
  /\ \A e \in exist : frozen[e] => \A i \in DOMAIN lst[e] : ~lst[e][i].live
  /\ op.name = "Listen" /\ op.wasDead => log = <<>>

\* C29 (as stated): in the destroy call that freezes the store of an
\* entity, every user listener of the entity that receives the terminal
\* signal receives it before the store is frozen.
C29_ListenersBeforeFreeze ==
  op.name = "Destroy" /\ ~op.wasDead =>
    \A n \in Subs : reg[n].on /\ reg[n].e = Target =>
      \A i \in Recv(n, Term), j \in At("freeze", Target) : i < j

\* C22 (as stated): a changed value written by a listener while the pass of
\* a tick runs is followed, in the same pass, by the emission of a flushed
\* signal of the entity with the written key in its change-set, or the
\* key is in the batch of a flush that is queued with its timer set.
C22_WriteInPassIsFlushed ==
  op.name = "Tick" =>
    \A j \in Writes(log) : \A k \in log[j].ks :
      \/ \E i \in At("flush", log[j].e) : i > j /\ k \in log[i].ks
      \/ /\ k \in pkeys[log[j].e]
         /\ timers > 0
         /\ \E t \in Range(disp) : t.t = "flush" /\ t.e = log[j].e

\* C23 (as stated): in the pass of a tick every unfiltered listener
\* subscribed at the tick to an entity with a batch receives the flushed
\* signal, whatever another listener does when it receives it.
C23_ThrowDoesNotBlockFlush ==
  op.name = "Tick" =>
    \A n \in op.lsn : reg[n].all /\ op.batch[reg[n].e] # {} =>
      Recv(n, Flush) # {}

\* C24 (as stated): the key signal of a write is received exactly once by
\* every unfiltered listener that was subscribed when the write was made,
\* whatever is unsubscribed during the delivery, and a listener that is
\* not subscribed when a call is made receives nothing during the call.
C24_UnsubscribeKeepsPass ==
  /\ op.name = "Write" /\ op.hit # "" /\ op.err = NoErr =>
       \A n \in op.lsn : reg[n].all => Cardinality(Recv(n, op.hit)) = 1
  /\ op.name # "Listen" =>
       \A i \in DOMAIN log : log[i].ev = "recv" => log[i].n \in op.lsn

\* Positions of the log where a user listener emitted a signal from inside
\* a delivery: it dispatched a key, destroyed its entity or wrote b.
Inner ==
  {j \in DOMAIN log : /\ log[j].n \in Subs
                       /\ log[j].ev \in {"emit", "destroy", "write"}}

\* The signal emitted at position j, and the one being delivered then.
SigOf(j) ==
  CASE log[j].ev = "emit" -> log[j].sig
    [] log[j].ev = "destroy" -> Term
    [] OTHER -> "b"

Cur(j) ==
  LET before == {i \in DOMAIN log : i < j /\ log[i].ev = "recv"}
  IN log[CHOOSE i \in before : \A o \in before : o <= i].sig

\* C28 (as stated): a signal a listener emits while a signal is being
\* delivered is received after the emit call, in the same call, by every
\* unfiltered listener subscribed throughout, and only after the signal
\* being delivered has reached its listeners.
C28_InnerEmitMergedAndDelivered ==
  \A j \in Inner :
    /\ \A n \in op.lsn \cap LiveIn(lst) : reg[n].all =>
         \E i \in Recv(n, SigOf(j)) : i > j
    /\ SigOf(j) # Cur(j) =>
         \A i0, i1 \in DOMAIN log :
           (/\ i0 > j /\ log[i0].ev = "recv" /\ log[i0].sig = Cur(j)
            /\ i1 > j /\ log[i1].ev = "recv" /\ log[i1].sig = SigOf(j))
           => i0 < i1

\* C30 (as stated): a listener that returns null whenever it is called is
\* called at most once in a call and is not subscribed when that call
\* returns.
C30_NullReturnRemoves ==
  \A n \in Subs : reg[n].on /\ reg[n].act = "null" =>
    \A sig \in {Ready, Flush, Term} \cup AllKeys :
      Recv(n, sig) # {} =>
        /\ n \notin LiveIn(lst)
        /\ Cardinality({i \in DOMAIN log :
                          log[i].ev = "recv" /\ log[i].n = n}) = 1

\* A flush of entity e is queued and its timer is set.
FlushQueued(e) ==
  timers > 0 /\ \E t \in Range(disp) : t.t = "flush" /\ t.e = e

\* C25 (as stated): a silent key change (a silent dispatch, or a changed
\* value assigned silently) records the key and calls no listener; after a
\* write or a dispatch that is not silent, a flush of
\* the entity is queued whose batch holds every key changed since the last
\* tick, the silently changed ones included.
C25_SilentKeyJoinsFlush ==
  /\ op.name \in {"Silent", "Assign"} /\ op.hit # "" /\ op.err = NoErr =>
       log = <<>> /\ op.hit \in pkeys["E"]
  /\ op.name \in {"Write", "Dispatch"} /\ op.hit # "" /\ op.err = NoErr =>
       wr["E"] \subseteq pkeys["E"] /\ FlushQueued("E")

\* C27 (as stated): after set(key, value) on a ready entity that is not
\* destroyed the key holds the value, for the values 0 and 1, and if the
\* key held another value before, every unfiltered listener subscribed
\* received the key.
C27_SetKeyStoresValue ==
  op.name = "SetKey" /\ op.err = NoErr =>
    /\ store[op.arg.e][op.arg.k] = op.arg.v
    /\ ~op.same => \A n \in op.lsn : reg[n].all => Recv(n, op.arg.k) # {}


\* C31 (as stated): when a set call registers an entity in a scope, the
\* expectation callback of every scope of the chain (the scope and the scope
\* it was pushed from) that holds one for a type key of the entity is called
\* with the entity, which the call has made ready.
C31_ExpectationOnWholeChain ==
  gcx.op.name = "Set" =>
    \A i \in DOMAIN cx.log : cx.log[i].ev = "add" =>
      \A s \in {gcx.op.x, "R"} :
        gcx.op.exp[s] \cap Range(Chain(cx.log[i].t)) # {} =>
          \E j \in DOMAIN cx.log : /\ cx.log[j].ev = "expect"
                                   /\ cx.log[j].s = s
                                   /\ cx.log[j].e = cx.log[i].e


\* Entities registered in scope x: those of the applied input keys and
\* their child entities.
Current(x) ==
  Registered(x) \cup
    {k \in Children : \E w \in Registered(x) : k \in Range(KidsOf(w))}

\* C32 (as stated): while the scope holds exactly one explicitly registered
\* entity of a type and a registered entity's child of that type, the
\* lookup of the type returns the explicitly registered entity.
C32_ExplicitOverImplicit ==
  \A t \in Types, e \in Registered("R") :
    /\ {e2 \in Registered("R") : HasType(e2, t)} = {e}
    /\ \E k \in Current("R") \ Registered("R") : HasType(k, t)
    => Get(cx, "R", t, FALSE) = e

\* C37 (as stated): a lookup returns only an entity that is registered now,
\* and fails as ambiguous only while more than one registered entity has
\* the type.
C37_LookupReflectsCurrent ==
  \A t \in Types :
    LET r == Get(cx, "R", t, FALSE)
    IN /\ r \in Insts => r \in Current("R") /\ HasType(r, t)
       /\ r = "ambiguous" =>
            Cardinality({e \in Current("R") : HasType(e, t)}) > 1

\* C39 (as stated): a set call that fails with the invalid-registration
\* error leaves bindings, entities, cleanup entries and recorded inputs as
\* they were before the call.
C39_FailedSetChangesNothing ==
  gcx.op.name = "Set" /\ cx.err = "invalid" => gcx.op.same


\* A user listener of entity e has thrown in an earlier call.
HasThrown(e) ==
  \E x \in DOMAIN lst[e] : lst[e][x].act = "fail" /\ lst[e][x].ign

\* C36 (as stated): a value-changing write that follows a call in which a
\* listener threw during a direct emit is delivered to every listener
\* subscribed before it, and a flush of the entity is queued after it.
C36_UsableAfterThrow ==
  op.name = "Write" /\ op.hit # "" /\ op.err = NoErr /\ HasThrown("E") =>
    /\ \A n \in op.lsn : Recv(n, op.hit) # {}
    /\ FlushQueued("E")


\* C40 (as stated): every function passed to enqueue is called after that
\* enqueue call, in the pass in progress or the next one: when a pass
\* returns, a function enqueued and not called since is in DISPATCH; and
\* DISPATCH holds a function enqueued several times once.
C40_EnqueuedHandlerRuns ==
  /\ op.name = "Tick" => op.lost = {}
  /\ \A i, j \in DOMAIN disp : disp[i] = disp[j] => i = j


\* C34: between calls at most one timer of enqueue is outstanding, however
\* many entities have a flush queued, and one is outstanding whenever
\* DISPATCH is not empty.
C34_OneTimerOutstanding ==
  /\ timers \in {0, 1}
  /\ disp # <<>> => timers = 1

\* One timer is outstanding while the flushes of two entities are queued.
C34_Witness ==
  /\ timers = 1
  /\ \E i, j \in DOMAIN disp :
       disp[i].t = "flush" /\ disp[j].t = "flush" /\ disp[i].e # disp[j].e


\* C35: a user listener receives a key, the flush signal or the terminal
\* signal of an entity only after the ready handler of that entity has run
\* and, if the listener is unfiltered and was subscribed before the entity
\* was ready, after it has received ready itself, earlier in the same call
\* or in an earlier call.
C35_ReadyIsFirstSignal ==
  \A i \in DOMAIN log :
    log[i].ev = "recv" /\ log[i].sig # Ready =>
      /\ \/ \E j \in 1 .. (i - 1) :
              log[j].ev = "promote" /\ log[j].e = log[i].e
         \/ cnt.promote[log[i].e] > CountEv(log, "promote", log[i].e, 0, "")
      /\ reg[log[i].n].all /\ reg[log[i].n].pre =>
           \/ \E j \in Recv(log[i].n, Ready) : j < i
           \/ cnt.ready[log[i].n] > Cardinality(Recv(log[i].n, Ready))

\* The first emit of P is a destroy, and a listener registered before it
\* receives the terminal signal in that call.
C35_Witness ==
  /\ op.name = "Destroy"
  /\ ~op.wasReady
  /\ \E n \in op.lsn :
       reg[n].all /\ reg[n].pre /\ reg[n].e = Target /\ Recv(n, Term) # {}


\* C38 (as stated): once the terminal listener of an entity has frozen its
\* store, every entity whose recorded parent it is has been destroyed (its
\* store is frozen) too.
C38_ChildrenOfDestroyedParent ==
  \A p \in Tree, c \in Tree : frozen[p] /\ parent[c] = p => frozen[c]


\* Effect f is suspended: the marker its callback threw is pending.
Suspended(f) ==
  \E m \in Markers : prom[m].made /\ prom[m].then = f /\ prom[m].st = "pending"

\* C33: while the marker thrown by an effect's callback is pending, no call
\* other than the one that started the effect or activated its entity
\* invokes the effect or queues its invocation, whatever keys are written;
\* once the missing key is written the marker is resolved with the
\* invocation still chained to it, and the microtask that follows invokes
\* the effect once, with the key read.
C33_SuspendedEffectResumes ==
  /\ \A f \in Fx :
       Suspended(f) /\ op.name \notin {"StartEffect", "Activate"} =>
         /\ \A i \in DOMAIN log : log[i].n = f =>
              log[i].ev \notin {"run", "suspend"}
         /\ InvokeTask(f) \notin Range(disp)
  /\ \A m \in Markers :
       prom[m].made /\ prom[m].then # 0 /\ store[prom[m].e][prom[m].k] # Absent
         => Settled(m)
  /\ op.name = "Micro" =>
       \E f \in Fx : /\ Cardinality(Runs(log, f)) = 1
                     /\ \A i \in Runs(log, f) : log[i].ks = {"a", "r"}
                     /\ ~Suspended(f)

\* The microtask has re-invoked an effect that was suspended while another
\* key was written.
C33_Witness ==
  /\ op.name = "Micro"
  /\ store["E"]["a"] = "1"
  /\ \E f \in Fx : Runs(log, f) # {}

============================================================================
